---- MODULE Spec2Model ----
(***************************************************************************)
(* State-machine model of generate_PGdata_example_notebook.ipynb: the      *)
(* notebook's global variables are the state, every statement group of     *)
(* cells 4-7 is an action, and the external PowerGenome / pandas calls are *)
(* nondeterministic over small sets of tables.                             *)
(*                                                                         *)
(* A DataFrame is a record [cols, index, data]: cols the column labels in  *)
(* order, index the row labels, data the rows.  A generator row carries    *)
(* every modelled column; a column the frame does not have holds the null  *)
(* cell.  A nullable cell is <<>> (NaN) or <<v>>.                          *)
(***************************************************************************)
EXTENDS Integers, Sequences, FiniteSets, TLC

\* ------------------------------------------------------------------ bounds
MaxPeriods == 3
MaxRegions == 2

\* ------------------------------------------------------------ input domains
\* Planning periods are the keys of scenario_settings, in file order.
PeriodYear(j) == 2020 + 5 * j
PeriodLists == { [j \in 1..n |-> PeriodYear(j)] : n \in 1..MaxPeriods }

\* cwd / run_folder / settings_file, one character per element.
Cwd == <<"/", "w">>
RunFolder == <<"U", "S">>
SettingsFiles ==
  { <<"s", ".", "y", "m", "l">>,
    <<"s", ".", "y", "a", "m", "l">>,
    <<"s", ".", "y", "m", "l", ".", "y", "m", "l">> }

\* Generator clusters the clustering service can return: Resource, region, cluster.
GeneratorOrder == << <<"ngcc", "CA", 1>>, <<"wind", "TX", 2>> >>
Generators == { GeneratorOrder[i] : i \in DOMAIN GeneratorOrder }

NaN == <<>>
\* operating_year cells of the start-year table: missing, zero, or a real year.
StartYearCells == { NaN, <<0>>, <<1990>> }

\* ------------------------------------------------------------- DataFrames
EmptyFrame == [cols |-> <<>>, index |-> <<>>, data |-> <<>>]

RangeIndex(n) == [i \in 1..n |-> i - 1]

HasCol(cols, c) == \E i \in 1..Len(cols) : cols[i] = c

RECURSIVE SelectNotIn(_, _)
SelectNotIn(cols, have) ==
  IF cols = <<>> THEN <<>>
  ELSE IF HasCol(have, Head(cols)) THEN SelectNotIn(Tail(cols), have)
       ELSE <<Head(cols)>> \o SelectNotIn(Tail(cols), have)

GenRow(g, oy) ==
  [Resource |-> g[1], region |-> g[2], cluster |-> g[3],
   operating_year |-> oy, tech |-> NaN, extra |-> NaN]

\* pd.concat([a, b]): outer join of the columns, rows and row labels appended.
PdConcat(a, b) ==
  [cols  |-> a.cols \o SelectNotIn(b.cols, a.cols),
   index |-> a.index \o b.index,
   data  |-> a.data \o b.data]

\* df.loc[:, 'operating_year'] = year
SetOperatingYear(t, year) ==
  [cols  |-> IF HasCol(t.cols, "operating_year") THEN t.cols
             ELSE Append(t.cols, "operating_year"),
   index |-> t.index,
   data  |-> [i \in 1..Len(t.data) |-> [t.data[i] EXCEPT !.operating_year = <<year>>]]]

\* df[cols]: the listed columns only; a dropped column's cells are gone.
Restrict(t, cols) ==
  [cols  |-> cols,
   index |-> t.index,
   data  |-> [i \in 1..Len(t.data) |->
               [t.data[i] EXCEPT
                  !.operating_year = IF HasCol(cols, "operating_year") THEN @ ELSE NaN,
                  !.tech           = IF HasCol(cols, "tech") THEN @ ELSE NaN,
                  !.extra          = IF HasCol(cols, "extra") THEN @ ELSE NaN]]]

\* df.to_csv(path, index=False): header and rows, the row labels are not written.
ToCsv(t) == [cols |-> t.cols, data |-> t.data]

\* to_csv writes an empty header line for a frame without columns, and
\* pd.read_csv raises EmptyDataError on it.
Readable(f) == f.cols # <<>>

\* pd.read_csv(path): header and rows under a fresh RangeIndex.
ReadCsv(f) == [cols |-> f.cols, index |-> RangeIndex(Len(f.data)), data |-> f.data]

\* --------------------------------------------------------------- strings
IsPrefix(old, s) == Len(s) >= Len(old) /\ SubSeq(s, 1, Len(old)) = old

\* str.replace(old, new): every non-overlapping occurrence, left to right.
RECURSIVE StrReplace(_, _, _)
StrReplace(s, old, new) ==
  IF s = <<>> THEN <<>>
  ELSE IF IsPrefix(old, s)
       THEN new \o StrReplace(SubSeq(s, Len(old) + 1, Len(s)), old, new)
       ELSE <<Head(s)>> \o StrReplace(Tail(s), old, new)

\* file_prefix = str(settings_path).replace('.yml','_')
FilePrefix(path) == StrReplace(path, <<".", "y", "m", "l">>, <<"_">>)

\* file_prefix + '<name>.csv'
OutPath(prefix, name) == prefix \o <<name \o ".csv">>

\* ------------------------------------------------- external service results
SeqOfGens(S) == SelectSeq(GeneratorOrder, LAMBDA g : g \in S)

\* gc.create_new_generators(): new-build clusters, no operating_year, and a
\* column the start-year table does not have.
NewGenTables ==
  { LET gs == SeqOfGens(S) IN
      [cols  |-> <<"Resource", "region", "cluster", "extra">>,
       index |-> RangeIndex(Len(gs)),
       data  |-> [i \in 1..Len(gs) |-> [GenRow(gs[i], NaN) EXCEPT !.extra = <<"x">>]]]
    : S \in (SUBSET Generators) \ {{}} }

\* gc.create_all_generators(): existing and new clusters of the first period.
AllGenTables ==
  UNION { { LET gs == SeqOfGens(S) IN
              [cols  |-> <<"Resource", "region", "cluster", "operating_year">>,
               index |-> RangeIndex(Len(gs)),
               data  |-> [i \in 1..Len(gs) |-> GenRow(gs[i], oy[gs[i]])]]
            : oy \in [S -> StartYearCells] }
          : S \in (SUBSET Generators) \ {{}} }

\* A one-row frame standing for a table this pipeline only passes along.
Opaque(col, v) == [cols |-> <<col>>, index |-> <<0>>, data |-> <<[v |-> v]>>]

\* ------------------------------------------------------- pipeline constants
\* Mutant: the loop runs over every period, the first included.
LaterPeriods_All(periods) == periods

\* for year in all_periods[1:]
LaterPeriods(periods) == Tail(periods)

\* Mutant: the last period taken for the start year.
StartYear_Last(periods) == periods[Len(periods)]

\* start_year = all_periods[0]
StartYear(periods) == periods[1]

\* Mutant: the branch taken for a single region aggregation too.
TransmissionConfigured_AtLeastOne(n) == n > 0

\* if len(settings['region_aggregations'])>1
TransmissionConfigured(n) == n > 1

\* Mutant: line loss computed before the line distance.
TransSteps_LossFirst ==
  <<"agg_transmission_constraints", "load_ipm_shapefile", "network_line_loss",
    "transmission_line_distance", "network_reinforcement_cost", "network_max_reinforcement">>

\* The transmission branch, one external call per element.
TransSteps ==
  <<"agg_transmission_constraints", "load_ipm_shapefile", "transmission_line_distance",
    "network_line_loss", "network_reinforcement_cost", "network_max_reinforcement">>

\* Mutant: the generator tables written before the profiles.
WriteOrder_GensFirst ==
  <<"all_gens", "new_gen", "reduced_load_profile", "reduced_resource_profile">>

\* The unconditional to_csv calls, in statement order.
WriteOrder == <<"reduced_load_profile", "reduced_resource_profile", "all_gens", "new_gen">>

\* The unconditional read_csv calls, in statement order.
ReadOrder == <<"reduced_load_profile", "reduced_resource_profile", "all_gens", "new_gen">>

\* all_gens['tech'] = Resource + '-' + region + '-' + cluster.map(int).map(str)
WithTech(t) ==
  [cols  |-> IF HasCol(t.cols, "tech") THEN t.cols ELSE Append(t.cols, "tech"),
   index |-> t.index,
   data  |-> [i \in 1..Len(t.data) |->
               [t.data[i] EXCEPT !.tech =
                  <<t.data[i].Resource \o "-" \o t.data[i].region \o "-"
                    \o ToString(t.data[i].cluster)>>]]]

\* Mutant: the new-generator rows are left out of the multi-period table.
ConcatMultiYear_StartOnly(a, n) == Restrict(a, a.cols)

\* pd.concat([all_gens, new_gen])[all_gens.columns]
ConcatMultiYear(a, n) == Restrict(PdConcat(a, n), a.cols)

\* Mutant: only the missing values are filled, zeros stay.
FillOperatingYear_NanOnly(t, first) ==
  [t EXCEPT !.data = [i \in 1..Len(t.data) |->
                       IF t.data[i].operating_year = NaN
                       THEN [t.data[i] EXCEPT !.operating_year = <<first>>]
                       ELSE t.data[i]]]

\* operating_year: NaN -> all_periods[0], then 0 -> all_periods[0]
FillOperatingYear(t, first) ==
  LET nanFilled == [i \in 1..Len(t.data) |->
                     IF t.data[i].operating_year = NaN
                     THEN [t.data[i] EXCEPT !.operating_year = <<first>>]
                     ELSE t.data[i]]
  IN [t EXCEPT !.data = [i \in 1..Len(nanFilled) |->
                          IF nanFilled[i].operating_year = <<0>>
                          THEN [nanFilled[i] EXCEPT !.operating_year = <<first>>]
                          ELSE nanFilled[i]]]

\* ------------------------------------------------------------------ state
VARIABLES
  settings_path,            \* cwd / run_folder / settings_file
  scenario_periods,         \* list(scenario_settings.keys())
  region_aggregations,      \* len(settings['region_aggregations'])
  cell4_run_new,            \* the value cell 4 assigns to run_new (its line 'run_new = 1')
  run_new,                  \* the cache flag as the kernel holds it: Unbound or <<value>>
  all_periods, start_year, file_prefix,
  new_gen, load_curves, all_gens, gen_variability,
  reduced_resource_profile, reduced_load_profile, transmission,
  all_gens_multi_year,
  pc,                       \* the statement the run is at
  year_i,                   \* position of the new_gen loop in all_periods[1:]
  step,                     \* position in TransSteps / WriteOrder / ReadOrder
  failed_at,                \* the statement that raised, when pc = "failed"
  disk,                     \* path -> CSV content
  calls,                    \* external service calls of this run, in order
  written,                  \* tables this run has written, in order
  fresh,                    \* the tables the last finished recompute run ended with
  service                   \* what the external services have answered so far

inputs == <<settings_path, scenario_periods, region_aggregations, cell4_run_new>>
cell4 == <<all_periods, start_year, file_prefix>>
frames == <<new_gen, load_curves, all_gens, gen_variability,
            reduced_resource_profile, reduced_load_profile, transmission,
            all_gens_multi_year>>
vars == <<inputs, run_new, cell4, frames, pc, year_i, step, failed_at,
          disk, calls, written, fresh, service>>

Snapshot ==
  [reduced_load_profile |-> reduced_load_profile,
   reduced_resource_profile |-> reduced_resource_profile,
   all_gens |-> all_gens, new_gen |-> new_gen, transmission |-> transmission,
   all_gens_multi_year |-> all_gens_multi_year]

NoSnapshot ==
  [reduced_load_profile |-> EmptyFrame, reduced_resource_profile |-> EmptyFrame,
   all_gens |-> EmptyFrame, new_gen |-> EmptyFrame, transmission |-> EmptyFrame,
   all_gens_multi_year |-> EmptyFrame]

Call(fn, year) == [fn |-> fn, year |-> year]

\* run_new = 1, the assignment of cell 4 as committed.
RunNewAsCommitted == 1

\* A name the kernel has not bound yet.
Unbound == <<>>

\* The external services read the settings and the database alone: asked again
\* with the same settings they answer as before.
NoAnswers == [new_gen |-> <<>>, all_gens |-> <<>>]

\* A new kernel that has run cells 1-3: settings loaded, nothing computed,
\* run_new not bound until cell 4 assigns it.
Init ==
  /\ settings_path \in { Cwd \o <<"/">> \o RunFolder \o <<"/">> \o f : f \in SettingsFiles }
  /\ scenario_periods \in PeriodLists
  /\ region_aggregations \in 0..MaxRegions
  /\ cell4_run_new = RunNewAsCommitted
  /\ run_new = Unbound
  /\ all_periods = <<>> /\ start_year = 0 /\ file_prefix = <<>>
  /\ new_gen = EmptyFrame /\ load_curves = EmptyFrame /\ all_gens = EmptyFrame
  /\ gen_variability = EmptyFrame /\ reduced_resource_profile = EmptyFrame
  /\ reduced_load_profile = EmptyFrame /\ transmission = EmptyFrame
  /\ all_gens_multi_year = EmptyFrame
  /\ pc = "cell4" /\ year_i = 1 /\ step = 1 /\ failed_at = "none"
  /\ disk = <<>> /\ calls = <<>> /\ written = <<>> /\ fresh = NoSnapshot
  /\ service = NoAnswers

\* ------------------------------------------------------------------ cell 4
Cell4 ==
  /\ pc = "cell4"
  /\ all_periods' = scenario_periods
  /\ start_year' = StartYear(scenario_periods)
  /\ run_new' = <<cell4_run_new>>
  /\ file_prefix' = FilePrefix(settings_path)
  /\ pc' = "cell5"
  /\ UNCHANGED <<inputs, service, frames, year_i, step, failed_at, disk, calls,
                 written, fresh>>

\* ------------------------------------------------------------------ cell 5
\* if run_new==1: new_gen = pd.DataFrame()
Cell5Begin ==
  /\ pc = "cell5"
  /\ IF run_new = <<1>>
     THEN /\ new_gen' = EmptyFrame
          /\ year_i' = 1
          /\ pc' = IF LaterPeriods(all_periods) = <<>> THEN "load_curves" ELSE "new_gen_loop"
     ELSE /\ pc' = "cell6"
          /\ UNCHANGED <<new_gen, year_i>>
  /\ UNCHANGED <<inputs, service, run_new, cell4, load_curves, all_gens, gen_variability,
                 reduced_resource_profile, reduced_load_profile, transmission,
                 all_gens_multi_year, step, failed_at, disk, calls, written, fresh>>

\* One iteration of the loop over all_periods[1:].
NewGenYear ==
  /\ pc = "new_gen_loop"
  /\ year_i <= Len(LaterPeriods(all_periods))
  /\ LET year == LaterPeriods(all_periods)[year_i] IN
       \E new_gen_year \in (IF year \in DOMAIN service.new_gen
                             THEN {service.new_gen[year]} ELSE NewGenTables) :
         /\ new_gen' = PdConcat(new_gen, SetOperatingYear(new_gen_year, year))
         /\ service' = [service EXCEPT !.new_gen = (year :> new_gen_year) @@ @]
         /\ calls' = Append(calls, Call("create_new_generators", year))
  /\ year_i' = year_i + 1
  /\ pc' = IF year_i + 1 > Len(LaterPeriods(all_periods)) THEN "load_curves"
           ELSE "new_gen_loop"
  /\ UNCHANGED <<inputs, run_new, cell4, load_curves, all_gens, gen_variability,
                 reduced_resource_profile, reduced_load_profile, transmission,
                 all_gens_multi_year, step, failed_at, disk, written, fresh>>

LoadCurves ==
  /\ pc = "load_curves"
  /\ load_curves' = Opaque("load_mw", "load")
  /\ calls' = Append(calls, Call("make_final_load_curves", start_year))
  /\ pc' = "all_gens"
  /\ UNCHANGED <<inputs, service, run_new, cell4, new_gen, all_gens, gen_variability,
                 reduced_resource_profile, reduced_load_profile, transmission,
                 all_gens_multi_year, year_i, step, failed_at, disk, written, fresh>>

CreateAllGens ==
  /\ pc = "all_gens"
  /\ \E table \in (IF service.all_gens # <<>> THEN {service.all_gens[1]}
                   ELSE AllGenTables) :
       /\ all_gens' = table
       /\ service' = [service EXCEPT !.all_gens = <<table>>]
  /\ calls' = Append(calls, Call("create_all_generators", start_year))
  /\ pc' = "misc_all_gens"
  /\ UNCHANGED <<inputs, run_new, cell4, new_gen, load_curves, gen_variability,
                 reduced_resource_profile, reduced_load_profile, transmission,
                 all_gens_multi_year, year_i, step, failed_at, disk, written, fresh>>

\* all_gens = add_misc_gen_values(all_gens, settings): the columns it sets are
\* not among the modelled ones.
AddMiscAllGens ==
  /\ pc = "misc_all_gens"
  /\ calls' = Append(calls, Call("add_misc_gen_values", 0))
  /\ pc' = "misc_new_gen"
  /\ UNCHANGED <<inputs, service, run_new, cell4, frames, year_i, step, failed_at, disk,
                 written, fresh>>

\* new_gen = add_misc_gen_values(new_gen, settings); with a single period the
\* frame passed in is pd.DataFrame(), on which the call may raise (see Fail).
AddMiscNewGen ==
  /\ pc = "misc_new_gen"
  /\ calls' = Append(calls, Call("add_misc_gen_values", 0))
  /\ pc' = "variability"
  /\ UNCHANGED <<inputs, service, run_new, cell4, frames, year_i, step, failed_at, disk,
                 written, fresh>>

MakeGeneratorVariability ==
  /\ pc = "variability"
  /\ gen_variability' = Opaque("profile", "variability")
  /\ calls' = Append(calls, Call("make_generator_variability", 0))
  /\ pc' = "reduce"
  /\ UNCHANGED <<inputs, service, run_new, cell4, new_gen, load_curves, all_gens,
                 reduced_resource_profile, reduced_load_profile, transmission,
                 all_gens_multi_year, year_i, step, failed_at, disk, written, fresh>>

\* reduce_time_domain, then the test of the transmission branch.
ReduceTimeDomain ==
  /\ pc = "reduce"
  /\ reduced_resource_profile' = Opaque("profile", "reduced_variability")
  /\ reduced_load_profile' = Opaque("load_mw", "reduced_load")
  /\ calls' = Append(calls, Call("reduce_time_domain", start_year))
  /\ step' = 1
  /\ pc' = IF TransmissionConfigured(region_aggregations) THEN "transmission" ELSE "write"
  /\ UNCHANGED <<inputs, service, run_new, cell4, new_gen, load_curves, all_gens,
                 gen_variability, transmission, all_gens_multi_year, year_i,
                 failed_at, disk, written, fresh>>

\* One call of the transmission branch; each call after the first adds its column.
TransmissionStep ==
  /\ pc = "transmission"
  /\ step <= Len(TransSteps)
  /\ transmission' =
       IF step = 1 THEN Opaque("agg_transmission_constraints", "line")
       ELSE IF TransSteps[step] = "load_ipm_shapefile" THEN transmission
       ELSE [transmission EXCEPT !.cols = Append(@, TransSteps[step])]
  /\ calls' = Append(calls, Call(TransSteps[step], 0))
  /\ step' = IF step = Len(TransSteps) THEN 1 ELSE step + 1
  /\ pc' = IF step = Len(TransSteps) THEN "write_transmission" ELSE "transmission"
  /\ UNCHANGED <<inputs, service, run_new, cell4, new_gen, load_curves, all_gens,
                 gen_variability, reduced_resource_profile, reduced_load_profile,
                 all_gens_multi_year, year_i, failed_at, disk, written, fresh>>

WriteTransmission ==
  /\ pc = "write_transmission"
  /\ disk' = (OutPath(file_prefix, "transmission") :> ToCsv(transmission)) @@ disk
  /\ written' = Append(written, "transmission")
  /\ step' = 1
  /\ pc' = "write"
  /\ UNCHANGED <<inputs, service, run_new, cell4, frames, year_i, failed_at, calls, fresh>>

FrameNamed(name) ==
  CASE name = "reduced_load_profile" -> reduced_load_profile
    [] name = "reduced_resource_profile" -> reduced_resource_profile
    [] name = "all_gens" -> all_gens
    [] name = "new_gen" -> new_gen

\* One of the four unconditional to_csv calls.
WriteTable ==
  /\ pc = "write"
  /\ step <= Len(WriteOrder)
  /\ disk' = (OutPath(file_prefix, WriteOrder[step]) :> ToCsv(FrameNamed(WriteOrder[step])))
             @@ disk
  /\ written' = Append(written, WriteOrder[step])
  /\ step' = IF step = Len(WriteOrder) THEN 1 ELSE step + 1
  /\ pc' = IF step = Len(WriteOrder) THEN "cell6" ELSE "write"
  /\ UNCHANGED <<inputs, service, run_new, cell4, frames, year_i, failed_at, calls, fresh>>

\* ------------------------------------------------------------------ cell 6
Cell6Begin ==
  /\ pc = "cell6"
  /\ step' = 1
  /\ pc' = IF run_new # <<1>> THEN "read" ELSE "cell7"
  /\ UNCHANGED <<inputs, service, run_new, cell4, frames, year_i, failed_at, disk, calls,
                 written, fresh>>

ReadInto(name, old, content) == IF ReadOrder[step] = name THEN ReadCsv(content) ELSE old

\* One of the four unconditional read_csv calls, then the test of the
\* transmission branch.  A missing or empty file raises (see Fail).
ReadTable ==
  /\ pc = "read"
  /\ step <= Len(ReadOrder)
  /\ OutPath(file_prefix, ReadOrder[step]) \in DOMAIN disk
  /\ Readable(disk[OutPath(file_prefix, ReadOrder[step])])
  /\ LET content == disk[OutPath(file_prefix, ReadOrder[step])] IN
       /\ reduced_load_profile' = ReadInto("reduced_load_profile", reduced_load_profile, content)
       /\ reduced_resource_profile' =
            ReadInto("reduced_resource_profile", reduced_resource_profile, content)
       /\ all_gens' = ReadInto("all_gens", all_gens, content)
       /\ new_gen' = ReadInto("new_gen", new_gen, content)
  /\ step' = IF step = Len(ReadOrder) THEN 1 ELSE step + 1
  /\ pc' = IF step < Len(ReadOrder) THEN "read"
           ELSE IF TransmissionConfigured(region_aggregations) THEN "read_transmission"
           ELSE "cell7"
  /\ UNCHANGED <<inputs, service, run_new, cell4, load_curves, gen_variability, transmission,
                 all_gens_multi_year, year_i, failed_at, disk, calls, written, fresh>>

ReadTransmission ==
  /\ pc = "read_transmission"
  /\ OutPath(file_prefix, "transmission") \in DOMAIN disk
  /\ Readable(disk[OutPath(file_prefix, "transmission")])
  /\ transmission' = ReadCsv(disk[OutPath(file_prefix, "transmission")])
  /\ pc' = "cell7"
  /\ UNCHANGED <<inputs, service, run_new, cell4, new_gen, load_curves, all_gens,
                 gen_variability, reduced_resource_profile, reduced_load_profile,
                 all_gens_multi_year, year_i, step, failed_at, disk, calls, written,
                 fresh>>

\* ------------------------------------------------------------------ cell 7
PostProcess ==
  /\ pc = "cell7"
  /\ all_gens' = WithTech(all_gens)
  /\ all_gens_multi_year' =
       FillOperatingYear(ConcatMultiYear(WithTech(all_gens), new_gen), all_periods[1])
  /\ pc' = "done"
  /\ UNCHANGED <<inputs, service, run_new, cell4, new_gen, load_curves, gen_variability,
                 reduced_resource_profile, reduced_load_profile, transmission,
                 year_i, step, failed_at, disk, calls, written, fresh>>

\* ---------------------------------------------------------------- failure
\* Statements that call a service or the file system; any of them can raise.
ServicePcs ==
  {"new_gen_loop", "load_curves", "all_gens", "misc_all_gens", "misc_new_gen",
   "variability", "reduce",
   "transmission"}
WritePcs == {"write_transmission", "write"}
ReadPcs == {"read", "read_transmission"}

\* An exception is not caught anywhere: the run stops at the raising statement.
Fail ==
  /\ pc \in ServicePcs \cup WritePcs \cup ReadPcs
  /\ failed_at' = pc
  /\ pc' = "failed"
  /\ UNCHANGED <<inputs, service, run_new, cell4, frames, year_i, step, disk, calls,
                 written, fresh>>

\* ------------------------------------------------------------- another run
\* After a run has finished or failed the user runs the notebook again in a new
\* kernel, cell 4 either as committed or edited to assign run_new a value other
\* than 1. The settings and the files on disk stay; every name of the kernel is
\* unbound again.
Rerun ==
  /\ pc \in {"done", "failed"}
  /\ cell4_run_new' \in {RunNewAsCommitted, 0}
  /\ fresh' = IF pc = "done" /\ run_new = <<1>> THEN Snapshot ELSE fresh
  /\ run_new' = Unbound
  /\ all_periods' = <<>> /\ start_year' = 0 /\ file_prefix' = <<>>
  /\ new_gen' = EmptyFrame /\ load_curves' = EmptyFrame /\ all_gens' = EmptyFrame
  /\ gen_variability' = EmptyFrame /\ reduced_resource_profile' = EmptyFrame
  /\ reduced_load_profile' = EmptyFrame /\ transmission' = EmptyFrame
  /\ all_gens_multi_year' = EmptyFrame
  /\ pc' = "cell4" /\ year_i' = 1 /\ step' = 1 /\ failed_at' = "none"
  /\ calls' = <<>> /\ written' = <<>>
  /\ UNCHANGED <<settings_path, scenario_periods, region_aggregations, disk, service>>

Next ==
  \/ Cell4 \/ Cell5Begin \/ NewGenYear \/ LoadCurves \/ CreateAllGens
  \/ AddMiscAllGens \/ AddMiscNewGen \/ MakeGeneratorVariability \/ ReduceTimeDomain
  \/ TransmissionStep \/ WriteTransmission \/ WriteTable
  \/ Cell6Begin \/ ReadTable \/ ReadTransmission \/ PostProcess
  \/ Fail \/ Rerun

Spec == Init /\ [][Next]_vars

\* ================================================================ properties
Range(q) == { q[i] : i \in DOMAIN q }
Recompute == run_new = <<1>>
Reuse == run_new # Unbound /\ run_new # <<1>>
PastTransmissionBranch == pc \in {"write", "cell6", "cell7", "done"}
TransmissionPath == OutPath(file_prefix, "transmission")

\* C1 (as stated): in every finished run, whatever the cache flag, the run has
\* written the transmission table iff more than one region aggregation is
\* configured.
C1_WrittenIffConfiguredEveryRun ==
  pc = "done" => (("transmission" \in Range(written)) <=> region_aggregations > 1)

\* C1 (amended): a recompute run that has passed the transmission branch has
\* written the transmission table, and the file is on disk, iff more than one
\* region aggregation is configured; a reuse run writes no table at all.
C1_WrittenIffConfiguredInRecompute ==
  /\ (Recompute /\ PastTransmissionBranch) =>
       /\ ("transmission" \in Range(written)) <=> region_aggregations > 1
       /\ region_aggregations > 1 => TransmissionPath \in DOMAIN disk
  /\ ("transmission" \in Range(written)) => (Recompute /\ region_aggregations > 1)
  /\ Reuse => written = <<>>

C1_Witness ==
  /\ pc = "done" /\ Recompute /\ region_aggregations > 1
  /\ "transmission" \in Range(written)
  /\ disk[TransmissionPath] = ToCsv(transmission)

\* The row of pd.concat([all_gens, new_gen]) the i-th row of the multi-period
\* table comes from.
SourceRow(i) ==
  IF i <= Len(all_gens.data) THEN all_gens.data[i]
  ELSE new_gen.data[i - Len(all_gens.data)]

\* C2: after post-processing every row of all_gens_multi_year has an
\* operating_year that is neither null nor zero; a row whose operating_year was
\* missing or zero carries all_periods[0], every other row keeps its value.
C2_OperatingYearPopulated ==
  pc = "done" =>
    /\ Len(all_gens_multi_year.data) = Len(all_gens.data) + Len(new_gen.data)
    /\ \A i \in 1..Len(all_gens_multi_year.data) :
         LET oy == all_gens_multi_year.data[i].operating_year
             was == SourceRow(i).operating_year
         IN /\ oy # NaN /\ oy # <<0>>
            /\ (was = NaN \/ was = <<0>>) => oy = <<all_periods[1]>>
            /\ ~(was = NaN \/ was = <<0>>) => oy = was

C2_Witness ==
  /\ pc = "done"
  /\ \E i \in 1..Len(all_gens.data) : all_gens.data[i].operating_year = <<0>>
  /\ \E i \in 1..Len(all_gens.data) : all_gens.data[i].operating_year = NaN
  /\ Len(new_gen.data) > 0
  /\ \A i \in 1..Len(all_gens.data) :
       all_gens_multi_year.data[i].operating_year = <<all_periods[1]>>

Key(r) == <<r.Resource, r.region, r.cluster>>
RowsOf(t, g, p) ==
  { i \in 1..Len(t.data) : Key(t.data[i]) = g /\ t.data[i].operating_year = <<p>> }
RowsKeyed(t, g) == { i \in 1..Len(t.data) : Key(t.data[i]) = g }
StartYearGenerators == { Key(all_gens.data[i]) : i \in 1..Len(all_gens.data) }
StartBlock == SubSeq(all_gens_multi_year.data, 1, Len(all_gens.data))
NewBlock ==
  SubSeq(all_gens_multi_year.data, Len(all_gens.data) + 1, Len(all_gens_multi_year.data))

\* C3 (as stated): the multi-period table has exactly one row per generator per
\* planning period in which it exists: no (generator, period) pair twice, and a
\* start-year generator, present from the first period on, has one row for
\* each planning period.
C3_OneRowPerGeneratorPerPeriod ==
  pc = "done" =>
    /\ \A g \in Generators : \A p \in Range(all_periods) :
         Cardinality(RowsOf(all_gens_multi_year, g, p)) <= 1
    /\ \A g \in StartYearGenerators : \A p \in Range(all_periods) :
         Cardinality(RowsOf(all_gens_multi_year, g, p)) = 1

\* C3 (amended): the multi-period table is the start-year rows followed by the
\* new-generator rows, each once: a start-year generator has exactly one row
\* among the start-year rows and is not repeated for later periods, and a
\* new-build generator has exactly one row for each later period whose
\* new-build call returned it and none for the other periods.
C3_OneRowPerSourceRow ==
  pc = "done" =>
    /\ Len(all_gens_multi_year.data) = Len(all_gens.data) + Len(new_gen.data)
    /\ \A i \in 1..Len(all_gens_multi_year.data) :
         Key(all_gens_multi_year.data[i]) = Key(SourceRow(i))
    /\ \A g \in Generators :
         /\ Cardinality({ i \in 1..Len(StartBlock) : Key(StartBlock[i]) = g })
              = IF g \in StartYearGenerators THEN 1 ELSE 0
         /\ \A p \in Range(all_periods) :
              /\ Cardinality({ j \in 1..Len(NewBlock) :
                     Key(NewBlock[j]) = g /\ NewBlock[j].operating_year = <<p>> })
                   = Cardinality(RowsOf(new_gen, g, p))
              /\ Cardinality(RowsOf(new_gen, g, p)) <= 1

C3_Witness ==
  /\ pc = "done" /\ Len(all_periods) = 3
  /\ \E g \in StartYearGenerators :
       /\ Cardinality(RowsKeyed(new_gen, g)) = 2
       /\ Cardinality(RowsKeyed(all_gens_multi_year, g)) = 3

CurrentTables ==
  [reduced_load_profile |-> reduced_load_profile,
   reduced_resource_profile |-> reduced_resource_profile,
   all_gens |-> all_gens, new_gen |-> new_gen, transmission |-> transmission,
   all_gens_multi_year |-> all_gens_multi_year]

\* C4: a reuse run over the CSVs of a recompute run ends with in-memory tables
\* identical to those the recompute run ended with.
C4_ReuseReproducesRecompute ==
  (pc = "done" /\ Reuse) => CurrentTables = fresh

\* With a single planning period new_gen.csv holds no columns and the reuse run
\* stops at its read: it never gets to post-processing.
SinglePeriodReuseStops ==
  (Reuse /\ Len(scenario_periods) = 1) =>
    pc \in {"cell4", "cell5", "cell6", "read", "failed"}

\* The rows a step of the new_gen loop appends carry the period of that step,
\* and the rows already there are kept.
LoopStepTagsRows ==
  (pc = "new_gen_loop" /\ pc' # "failed") =>
    /\ Len(new_gen'.data) > Len(new_gen.data)
    /\ SubSeq(new_gen'.data, 1, Len(new_gen.data)) = new_gen.data
    /\ \A j \in (Len(new_gen.data) + 1)..Len(new_gen'.data) :
         new_gen'.data[j].operating_year = <<Tail(all_periods)[year_i]>>

NewGenOnlyLaterPeriods ==
  (Recompute /\ pc # "cell4") =>
    \A j \in 1..Len(new_gen.data) :
      /\ new_gen.data[j].operating_year # <<all_periods[1]>>
      /\ \E k \in 2..Len(all_periods) : new_gen.data[j].operating_year = <<all_periods[k]>>

NewRowsKeepTheirPeriod ==
  (Recompute /\ pc = "done") =>
    /\ Len(NewBlock) = Len(new_gen.data)
    /\ \A j \in 1..Len(NewBlock) :
         /\ Key(NewBlock[j]) = Key(new_gen.data[j])
         /\ NewBlock[j].operating_year = new_gen.data[j].operating_year

\* C5 (as stated): in a recompute run every new_gen row is tagged with the
\* later period whose call produced it, none with the first period, and the
\* combined table holds the start-year rows, tagged with the first period,
\* followed by the new rows with their later period.
C5_NewGenLaterStartRowsFirstPeriod ==
  /\ [](NewGenOnlyLaterPeriods /\ NewRowsKeepTheirPeriod)
  /\ []((Recompute /\ pc = "done") =>
          \A i \in 1..Len(StartBlock) :
            StartBlock[i].operating_year = <<all_periods[1]>>)
  /\ [][LoopStepTagsRows]_vars

\* C5 (amended): the same, except that a start-year row is tagged with the first
\* period only when its operating_year was missing or zero; a start-year row
\* with an operating year of its own keeps it in the combined table.
C5_NewGenLaterStartRowsFilled ==
  /\ [](NewGenOnlyLaterPeriods /\ NewRowsKeepTheirPeriod)
  /\ []((Recompute /\ pc = "done") =>
          /\ Len(StartBlock) = Len(all_gens.data)
          /\ \A i \in 1..Len(StartBlock) :
               /\ Key(StartBlock[i]) = Key(all_gens.data[i])
               /\ StartBlock[i].operating_year =
                    IF all_gens.data[i].operating_year \in {NaN, <<0>>}
                    THEN <<all_periods[1]>>
                    ELSE all_gens.data[i].operating_year)
  /\ [][LoopStepTagsRows]_vars

C5_Witness ==
  /\ Recompute /\ pc = "done" /\ Len(all_periods) = 3
  /\ \E i \in 1..Len(all_gens.data) : all_gens.data[i].operating_year = <<1990>>
  /\ \E i \in 1..Len(all_gens.data) : all_gens.data[i].operating_year = NaN
  /\ \E j \in 1..Len(NewBlock) : NewBlock[j].operating_year = <<all_periods[2]>>
  /\ \E j \in 1..Len(NewBlock) : NewBlock[j].operating_year = <<all_periods[3]>>

\* The services the claim names, and this run's calls to them in order.
NamedServices ==
  {"create_new_generators", "create_all_generators", "make_final_load_curves",
   "agg_transmission_constraints", "transmission_line_distance", "network_line_loss",
   "network_reinforcement_cost", "network_max_reinforcement"}
NamedCalls == SelectSeq(calls, LAMBDA c : c.fn \in NamedServices)

NewBuildCalls(periods) ==
  [k \in 1..(Len(periods) - 1) |-> Call("create_new_generators", periods[k + 1])]
TransmissionCalls(n) ==
  IF n > 1
  THEN <<Call("agg_transmission_constraints", 0), Call("transmission_line_distance", 0),
         Call("network_line_loss", 0), Call("network_reinforcement_cost", 0),
         Call("network_max_reinforcement", 0)>>
  ELSE <<>>

\* Order of the claim: new builds, start-year clustering, load curves, transmission.
OrderAsStated ==
  NewBuildCalls(scenario_periods)
    \o <<Call("create_all_generators", scenario_periods[1]),
         Call("make_final_load_curves", scenario_periods[1])>>
    \o TransmissionCalls(region_aggregations)

\* Order of the code: new builds, load curves, start-year clustering, transmission.
OrderLoadCurvesFirst ==
  NewBuildCalls(scenario_periods)
    \o <<Call("make_final_load_curves", scenario_periods[1]),
         Call("create_all_generators", scenario_periods[1])>>
    \o TransmissionCalls(region_aggregations)

\* C6 (as stated): the external calls of a recompute run happen one at a time
\* in the order new-build clustering per later period, start-year clustering,
\* load curves, then (if configured) transmission aggregation, distance, line
\* loss, reinforcement cost, max reinforcement, and only then the writes.
C6_CallOrderAsStated ==
  /\ IsPrefix(NamedCalls, OrderAsStated)
  /\ written # <<>> => NamedCalls = OrderAsStated

\* C6 (amended): the same order with the load-curve call before the start-year
\* clustering call instead of after it.
C6_CallOrderLoadCurvesFirst ==
  /\ IsPrefix(NamedCalls, OrderLoadCurvesFirst)
  /\ written # <<>> => NamedCalls = OrderLoadCurvesFirst

C6_Witness ==
  /\ Recompute /\ pc = "done" /\ region_aggregations > 1 /\ Len(all_periods) = 3
  /\ Len(NamedCalls) = 9 /\ "transmission" \in Range(written)

CallsTo(fn) == SelectSeq(calls, LAMBDA c : c.fn = fn)
ServicesDone == pc \in {"write_transmission", "write", "cell6", "cell7", "done"}

GeneratorAndLoadCallsOnce ==
  /\ CallsTo("create_all_generators") = <<Call("create_all_generators", scenario_periods[1])>>
  /\ CallsTo("make_final_load_curves") = <<Call("make_final_load_curves", scenario_periods[1])>>
  /\ CallsTo("create_new_generators") = NewBuildCalls(scenario_periods)

\* C7 (as stated): every run invokes create_all_generators exactly once, with
\* the first period; create_new_generators exactly once per later period and
\* never for the first; the load-curve service exactly once, for the first period.
C7_OneStartYearTableEveryRun ==
  pc = "done" => GeneratorAndLoadCallsOnce

\* C7 (amended): that holds of every recompute run once its service calls are
\* over, and no run ever makes more of these calls; a reuse run invokes none of
\* the services and takes its one start-year table from all_gens.csv.
C7_OneStartYearTableInRecompute ==
  /\ (Recompute /\ ServicesDone) => GeneratorAndLoadCallsOnce
  /\ Len(CallsTo("create_all_generators")) <= 1
  /\ Len(CallsTo("make_final_load_curves")) <= 1
  /\ IsPrefix(CallsTo("create_new_generators"), NewBuildCalls(scenario_periods))
  /\ \A i \in 1..Len(calls) :
       calls[i].fn \in {"create_all_generators", "make_final_load_curves"}
         => calls[i].year = scenario_periods[1]
  /\ Reuse => calls = <<>>
  /\ (Reuse /\ pc = "cell7") =>
       all_gens = ReadCsv(disk[OutPath(file_prefix, "all_gens")])

C7_Witness ==
  /\ Recompute /\ pc = "done" /\ Len(all_periods) = 3
  /\ Len(CallsTo("create_new_generators")) = 2
  /\ Len(CallsTo("create_all_generators")) = 1

OutputNames ==
  {"reduced_load_profile", "reduced_resource_profile", "all_gens", "new_gen", "transmission"}

LastIndexOf(q, c) ==
  LET at == { i \in 1..Len(q) : q[i] = c } IN
    IF at = {} THEN 0 ELSE CHOOSE i \in at : \A j \in at : j <= i

\* The directory part of a path, and the path without its final extension.
DirOf(path) == SubSeq(path, 1, LastIndexOf(path, "/"))
WithoutExtension(path) ==
  IF LastIndexOf(path, ".") > LastIndexOf(path, "/")
  THEN SubSeq(path, 1, LastIndexOf(path, ".") - 1)
  ELSE path

\* <settings-file-stem>_<name>.csv beside the settings file.
StatedPath(name) == WithoutExtension(settings_path) \o <<"_">> \o <<name \o ".csv">>

\* C8: every output table is written to the settings-file path with only its
\* extension replaced by '_<name>.csv': the files of the run lie in the run
\* folder, are pairwise distinct and differ from the settings file.
C8_OutputPathReplacesExtension ==
  Recompute =>
    /\ \A i \in 1..Len(written) : StatedPath(written[i]) \in DOMAIN disk
    /\ \A path \in DOMAIN disk :
         /\ \E name \in OutputNames : path = StatedPath(name)
         /\ DirOf(path) = DirOf(settings_path)
         /\ path # settings_path

\* The same statement for the settings files named *.yml alone, for which the
\* replacement of '.yml' and the replacement of the extension coincide.
C8_OutputPathForYmlSettings ==
  (Recompute /\ settings_path = WithoutExtension(settings_path) \o <<".", "y", "m", "l">>
     /\ FilePrefix(WithoutExtension(settings_path)) = WithoutExtension(settings_path)) =>
    /\ \A i \in 1..Len(written) : StatedPath(written[i]) \in DOMAIN disk
    /\ \A path \in DOMAIN disk : \E name \in OutputNames : path = StatedPath(name)

StatedTech(r) == <<r.Resource \o "-" \o r.region \o "-" \o ToString(r.cluster)>>

\* C9: after post-processing the multi-period table has exactly the start-year
\* table's columns, the composite key among them, and every row, start-year
\* and new-generator alike, has tech = Resource-region-cluster.
C9_EveryRowHasCompositeKey ==
  pc = "done" =>
    /\ all_gens_multi_year.cols = all_gens.cols
    /\ HasCol(all_gens_multi_year.cols, "tech")
    /\ \A i \in 1..Len(all_gens_multi_year.data) :
         all_gens_multi_year.data[i].tech = StatedTech(all_gens_multi_year.data[i])

\* What the code does establish: the columns, and the key of the start-year rows;
\* the rows that come from new_gen have no key.
C9_StartYearRowsHaveCompositeKey ==
  pc = "done" =>
    /\ all_gens_multi_year.cols = all_gens.cols
    /\ HasCol(all_gens_multi_year.cols, "tech")
    /\ ~HasCol(all_gens_multi_year.cols, "extra")
    /\ \A i \in 1..Len(StartBlock) : StartBlock[i].tech = StatedTech(StartBlock[i])
    /\ \A j \in 1..Len(NewBlock) : NewBlock[j].tech = NaN /\ NewBlock[j].extra = NaN

FullWriteOrder ==
  (IF region_aggregations > 1 THEN <<"transmission">> ELSE <<>>)
    \o <<"reduced_load_profile", "reduced_resource_profile", "all_gens", "new_gen">>

WritesFollowServices ==
  Recompute =>
    /\ IsPrefix(written, FullWriteOrder)
    /\ pc \in ServicePcs => written = <<>>
    /\ (pc = "failed" /\ failed_at \in ServicePcs) => written = <<>>
    /\ (pc = "failed" /\ written # <<>>) => failed_at \in WritePcs
    /\ \A i \in 1..Len(written) :
         /\ OutPath(file_prefix, written[i]) \in DOMAIN disk
         /\ pc = "failed" =>
              disk[OutPath(file_prefix, written[i])] = ToCsv(
                CASE written[i] = "transmission" -> transmission
                  [] written[i] = "reduced_load_profile" -> reduced_load_profile
                  [] written[i] = "reduced_resource_profile" -> reduced_resource_profile
                  [] written[i] = "all_gens" -> all_gens
                  [] written[i] = "new_gen" -> new_gen)

\* C10: a failure stops the run where it happens, with no retry and no
\* rollback: the only step after a failure is the user starting another run,
\* with the files as the failure left them; in a recompute run the files written so far are a prefix of
\* (transmission if configured, reduced_load_profile, reduced_resource_profile,
\* all_gens, new_gen), none is written before the last service call has
\* returned, so a failing service call leaves none, and a partial set of
\* outputs is left only by a failing write.
C10_FailureLeavesWritePrefix ==
  /\ []WritesFollowServices
  /\ [][pc = "failed" => (Rerun /\ disk' = disk)]_vars

C10_Witness ==
  /\ Recompute /\ pc = "failed" /\ failed_at = "write" /\ region_aggregations > 1
  /\ written = <<"transmission", "reduced_load_profile">>
  /\ OutPath(file_prefix, "reduced_load_profile") \in DOMAIN disk
  /\ OutPath(file_prefix, "all_gens") \notin DOMAIN disk

====
